---- MODULE Spec2Model ----
(***************************************************************************)
(* A model of FillerInterruptHandler                                       *)
(* (src/livekit_agents_extensions/filler_interrupt_handler.py) and of the  *)
(* way MultiUserTranscriber                                                *)
(* (src/examples/other/transcription/multi-user-transcriber.py) drives it. *)
(*                                                                         *)
(* Conventions.                                                            *)
(*  - A Python str is a sequence of one-character strings.                 *)
(*  - A confidence is an integer number of hundredths (0.4 is 40); the     *)
(*    arithmetic is exact, an average is kept as the pair (sum, n) that    *)
(*    the code divides.                                                    *)
(*  - Optional[float] is <<>> (None) or <<c>>.                             *)
(*  - A dict is a function from its keys; {} is <<>>.                      *)
(***************************************************************************)
EXTENDS Integers, Sequences, FiniteSets, TLC

\* The handler's fields (self._callbacks is callbacks).
VARIABLES ignored_words, force_stop_words, min_confidence_to_consider, ignore_if_confidence_below, agent_speaking, lock, callbacks

\* calls: the frame of each task's call of handle_transcript.
\* running: the task the event loop is running between two of its awaits, or None.
VARIABLES calls, running

\* History: for each kind the callback last passed to on_<kind>, and the one
\* passed before that.
VARIABLES registered, earlier

\* History: the tts event that completed last ("start", "end"), None before the first.
VARIABLES last_tts

\* The task MultiUserTranscriber creates for _set_agent_quiet: "none" before it
\* is created, then "sleeping", then "done".
VARIABLES quiet_task

\* MultiUserTranscriber and its room. connected: the identities in the room.
\* sessions: self._sessions, sessions numbered from 1 and 0 for an identity without a key. start_tasks:
\* the tasks of _start_session not yet done. live: the AgentSessions created
\* and not closed. tasks_created: how many tasks of _start_session were created.
VARIABLES connected, sessions, start_tasks, live, tasks_created

vars == <<ignored_words, force_stop_words, min_confidence_to_consider, ignore_if_confidence_below, agent_speaking, lock, callbacks, calls, running, registered, earlier, last_tts, quiet_task, connected, sessions, start_tasks, live, tasks_created>>

thresholds == <<min_confidence_to_consider, ignore_if_confidence_below>>

registry == <<callbacks, registered, earlier>>

beside == <<last_tts, quiet_task>>

orchestration == <<connected, sessions, start_tasks, live, tasks_created>>

(***************************************************************************)
(* Characters and str methods                                              *)
(***************************************************************************)

\* The characters the model's texts are written in.
LowerLetters == {"a", "d", "e", "h", "i", "k", "l", "m", "n", "o", "p", "r", "s", "t", "u", "w"}

UpperLetters == {"N", "O", "S", "U"}

Digits == {"7"}

Whitespace == {" "}

Punctuation == {".", ","}

\* str.lower() on one character.
LowerChar(c) == CASE c = "N" -> "n" [] c = "O" -> "o" [] c = "S" -> "s" [] c = "U" -> "u" [] OTHER -> c

\* str.lower()
Lower(s) == [i \in 1..Len(s) |-> LowerChar(s[i])]

\* \w under re.UNICODE: letters, digits and the underscore.
IsWordChar(c) == c \in LowerLetters \cup UpperLetters \cup Digits \cup {"_"}

\* A character the class [^\w'] of _TOKEN_RE does not match.
IsTokenChar(c) == IsWordChar(c) \/ c = "'"

RECURSIVE DropSeparators(_)
\* The rest of s after the run of [^\w'] characters it starts with.
DropSeparators(s) == IF s = <<>> \/ IsTokenChar(Head(s)) THEN s ELSE DropSeparators(Tail(s))

RECURSIVE TokenReSub(_)
\* _TOKEN_RE.sub(" ", s): every maximal run of [^\w'] characters becomes one space.
TokenReSub(s) == IF s = <<>> THEN <<>> ELSE IF IsTokenChar(Head(s)) THEN <<Head(s)>> \o TokenReSub(Tail(s)) ELSE <<" ">> \o TokenReSub(DropSeparators(s))

RECURSIVE LStrip(_)
LStrip(s) == IF s # <<>> /\ Head(s) \in Whitespace THEN LStrip(Tail(s)) ELSE s

RECURSIVE RStrip(_)
RStrip(s) == IF s # <<>> /\ s[Len(s)] \in Whitespace THEN RStrip(SubSeq(s, 1, Len(s) - 1)) ELSE s

\* str.strip()
Strip(s) == RStrip(LStrip(s))

RECURSIVE FirstWord(_)
\* The characters of s before its first whitespace character.
FirstWord(s) == IF s = <<>> \/ Head(s) \in Whitespace THEN <<>> ELSE <<Head(s)>> \o FirstWord(Tail(s))

RECURSIVE Split(_)
\* str.split(): the maximal runs of non-whitespace characters, in order.
Split(s) == LET t == LStrip(s) IN IF t = <<>> THEN <<>> ELSE <<FirstWord(t)>> \o Split(SubSeq(t, Len(FirstWord(t)) + 1, Len(t)))

normalize_text(text) == Lower(Strip(TokenReSub(text)))

tokenize(text) == SelectSeq(Split(normalize_text(text)), LAMBDA t : t # <<>>)

(***************************************************************************)
(* Module constants and the constructor                                    *)
(***************************************************************************)

DEFAULT_IGNORED_WORDS == {<<"u", "h">>, <<"u", "m", "m">>, <<"h", "m", "m">>, <<"h", "a", "a", "n">>, <<"u", "h", "h">>, <<"u", "h", "m">>, <<"e", "r", "m">>, <<"a", "h">>, <<"m", "m">>, <<"m", "m", "h">>, <<"m", "h", "m", "m">>}

DEFAULT_FORCE_STOP_WORDS == {<<"s", "t", "o", "p">>, <<"w", "a", "i", "t">>, <<"h", "o", "l", "d">>, <<"p", "a", "u", "s", "e">>, <<"w", "a", "i", "t", "a">>, <<"n", "o">>, <<"w", "a", "i", "t", "o", "n", "e">>, <<"o", "n", "e", " ", "m", "o", "m", "e", "n", "t">>}

\* The default of min_confidence_to_consider, 0.5.
DefaultMinConfidence == 50

\* The default of ignore_if_confidence_below, 0.4.
DefaultIgnoreBelow == 40

\* The confidence 1.0 a missing confidence defaults to.
FullConfidence == 100

\* set(w.lower() for w in new_list)
LowerAll(new_list) == {Lower(w) : w \in new_list}

\* set(w.lower() for w in (arg or default)): None and an empty list both take the default.
WordsOrDefault(arg, default) == LowerAll(IF arg = {} THEN default ELSE arg)

Kinds == {"valid_interruption", "ignored_filler", "speech_registered"}

\* What dict.get returns for a missing key.
None == "None"

Tasks == {"t1", "t2"}

(***************************************************************************)
(* dict operations                                                         *)
(***************************************************************************)

\* d.get(k), None when k is missing
Get(d, k) == IF k \in DOMAIN d THEN d[k] ELSE None

\* d[k] = v
Put(d, k, v) == [x \in DOMAIN d \cup {k} |-> IF x = k THEN v ELSE d[x]]

\* {**first, **second}: on a shared key the later entry, second's, stays.
MergeDict(first, second) == [k \in DOMAIN first \cup DOMAIN second |-> IF k \in DOMAIN second THEN second[k] ELSE first[k]]

(***************************************************************************)
(* handle_transcript, phase by phase                                       *)
(***************************************************************************)

RECURSIVE Sum(_)
Sum(s) == IF s = <<>> THEN 0 ELSE Head(s) + Sum(Tail(s))

\* [w.get("confidence", 1.0) for w in words if isinstance(w, dict)]
WordConfidences(words) == LET dicts == SelectSeq(words, LAMBDA w : w.is_dict) IN [i \in 1..Len(dicts) |-> IF dicts[i].has_confidence THEN dicts[i].confidence ELSE FullConfidence]

\* confidence if confidence is not None else 1.0
ConfidenceOrFull(confidence) == IF confidence # <<>> THEN confidence[1] ELSE FullConfidence

\* AverageConfidence taking the overall confidence, when given, before the words.
AverageConfidenceOverallFirst(confidence, words) == IF confidence # <<>> THEN [sum |-> confidence[1], n |-> 1] ELSE IF words # <<>> /\ WordConfidences(words) # <<>> THEN [sum |-> Sum(WordConfidences(words)), n |-> Len(WordConfidences(words))] ELSE [sum |-> FullConfidence, n |-> 1]

\* avg_conf of lines 151-159, as the pair the code divides.
AverageConfidence(confidence, words) == IF words # <<>> /\ WordConfidences(words) # <<>> THEN [sum |-> Sum(WordConfidences(words)), n |-> Len(WordConfidences(words))] ELSE [sum |-> ConfidenceOrFull(confidence), n |-> 1]

\* LowConfidence with <= for <.
LowConfidenceOrEqual(avg_conf, below) == avg_conf.sum <= below * avg_conf.n

\* avg_conf < self.ignore_if_confidence_below
LowConfidence(avg_conf, below) == avg_conf.sum < below * avg_conf.n

\* NonIgnoredTokens reading the module's default list, not the handler's set.
NonDefaultTokens(tokens, ignored) == SelectSeq(tokens, LAMBDA t : t \notin DEFAULT_IGNORED_WORDS)

\* [t for t in tokens if t not in self.ignored_words]
NonIgnoredTokens(tokens, ignored) == SelectSeq(tokens, LAMBDA t : t \notin ignored)

\* HasForceStop with all() for any().
AllForceStop(tokens, force) == \A i \in 1..Len(tokens) : tokens[i] \in force

\* HasForceStop matching an entry of two words against two tokens in a row as well.
HasForceStopPhrase(tokens, force) == (\E i \in 1..Len(tokens) : tokens[i] \in force) \/ (\E i \in 1..(Len(tokens) - 1) : (tokens[i] \o <<" ">> \o tokens[i + 1]) \in force)

\* any(t in self.force_stop_words for t in tokens)
HasForceStop(tokens, force) == \E i \in 1..Len(tokens) : tokens[i] \in force

\* One branch's outcome: its kind, the reason it stands for, and the dict the
\* callback of that kind is called with, {<diagnostics>, **(metadata or {})}.
Outcome(kind, diagnostics, metadata) == [kind |-> kind, reason |-> diagnostics.reason, meta |-> MergeDict(diagnostics, metadata)]

\* Classify with the confidence gate ahead of the test of agent_speaking.
ClassifyGateFirst(tokens, avg_conf, metadata, speaking, ignored, force, below) ==
  IF LowConfidence(avg_conf, below)
  THEN <<Outcome("ignored_filler", [reason |-> "low_confidence", avg_conf |-> avg_conf], metadata)>>
  ELSE IF ~speaking
       THEN <<Outcome("speech_registered", [reason |-> "agent_quiet", avg_conf |-> avg_conf], metadata)>>
       ELSE IF HasForceStop(tokens, force)
            THEN <<Outcome("valid_interruption", [reason |-> "force_stop_word", avg_conf |-> avg_conf], metadata)>>
            ELSE IF NonIgnoredTokens(tokens, ignored) = <<>>
                 THEN <<Outcome("ignored_filler", [reason |-> "filler_only", avg_conf |-> avg_conf], metadata)>>
                 ELSE <<Outcome("valid_interruption", [reason |-> "mixed_tokens", non_ignored |-> NonIgnoredTokens(tokens, ignored), avg_conf |-> avg_conf], metadata)>>

\* The decision tree of lines 165-207: the outcomes a call goes through before
\* it returns, in order (every branch ends in return).
Classify(tokens, avg_conf, metadata, speaking, ignored, force, below) ==
  IF speaking
  THEN IF LowConfidence(avg_conf, below)
       THEN <<Outcome("ignored_filler", [reason |-> "low_confidence", avg_conf |-> avg_conf], metadata)>>
       ELSE IF HasForceStop(tokens, force)
            THEN <<Outcome("valid_interruption", [reason |-> "force_stop_word", avg_conf |-> avg_conf], metadata)>>
            ELSE IF NonIgnoredTokens(tokens, ignored) = <<>>
                 THEN <<Outcome("ignored_filler", [reason |-> "filler_only", avg_conf |-> avg_conf], metadata)>>
                 ELSE <<Outcome("valid_interruption", [reason |-> "mixed_tokens", non_ignored |-> NonIgnoredTokens(tokens, ignored), avg_conf |-> avg_conf], metadata)>>
  ELSE <<Outcome("speech_registered", [reason |-> "agent_quiet", avg_conf |-> avg_conf], metadata)>>

\* cb = self._callbacks.get(kind); if cb: cb(text, meta) -- the calls the outcomes lead to.
Invocations(outcomes, cbs, text) == LET hit == SelectSeq(outcomes, LAMBDA o : Get(cbs, o.kind) # None) IN [i \in 1..Len(hit) |-> [kind |-> hit[i].kind, handler |-> Get(cbs, hit[i].kind), text |-> text, meta |-> hit[i].meta]]

\* A frame of handle_transcript that is not running.
IdleCall == [pc |-> "idle", arg_text |-> <<>>, text |-> <<>>, confidence |-> <<>>, words |-> <<>>, metadata |-> <<>>, tokens |-> <<>>, avg_conf |-> [sum |-> 0, n |-> 1], agent_speaking |-> FALSE, outcomes |-> <<>>, invocations |-> <<>>, ran |-> 0, raised |-> FALSE]

\* Begin testing the text for emptiness without stripping it.
BeginUnstripped(text, confidence, words, metadata) == IF text = <<>> THEN [IdleCall EXCEPT !.pc = "done", !.arg_text = text, !.confidence = confidence, !.words = words, !.metadata = metadata] ELSE [IdleCall EXCEPT !.pc = "acquire", !.arg_text = text, !.text = text, !.confidence = confidence, !.words = words, !.metadata = metadata, !.tokens = tokenize(text), !.avg_conf = AverageConfidence(confidence, words)]

\* Lines 143-159: the text stripped (an empty one returns), the tokens, avg_conf.
Begin(text, confidence, words, metadata) == LET stripped == Strip(text) IN IF stripped = <<>> THEN [IdleCall EXCEPT !.pc = "done", !.arg_text = text, !.confidence = confidence, !.words = words, !.metadata = metadata] ELSE [IdleCall EXCEPT !.pc = "acquire", !.arg_text = text, !.text = stripped, !.confidence = confidence, !.words = words, !.metadata = metadata, !.tokens = tokenize(stripped), !.avg_conf = AverageConfidence(confidence, words)]

\* Line 162: agent_speaking = self.agent_speaking
Snapshot(c, speaking) == [c EXCEPT !.pc = "decide", !.agent_speaking = speaking]

\* Lines 165-207 up to the callback's call.
Dispatch(c, ignored, force, below, cbs) == LET outs == Classify(c.tokens, c.avg_conf, c.metadata, c.agent_speaking, ignored, force, below) inv == Invocations(outs, cbs, c.text) IN [c EXCEPT !.outcomes = outs, !.invocations = inv, !.ran = IF inv = <<>> THEN 0 ELSE 1, !.pc = IF inv = <<>> THEN "done" ELSE "callback"]

\* The running callback returns: the next one is called, or the call returns.
CallbackReturn(c) == IF c.ran < Len(c.invocations) THEN [c EXCEPT !.ran = c.ran + 1] ELSE [c EXCEPT !.pc = "done"]

\* The running callback raises: nothing around cb(...) catches, the call raises.
CallbackRaise(c) == [c EXCEPT !.pc = "done", !.raised = TRUE]

RECURSIVE RunCallbacks(_, _)
\* The callbacks of a call run one after the other; with raises, the first raises.
RunCallbacks(c, raises) == IF c.pc # "callback" THEN c ELSE IF raises THEN CallbackRaise(c) ELSE RunCallbacks(CallbackReturn(c), raises)

\* A whole call that never waits for the lock.
WholeCall(text, confidence, words, metadata, speaking, ignored, force, below, cbs, raises) == LET b == Begin(text, confidence, words, metadata) IN IF b.pc = "done" THEN b ELSE RunCallbacks(Dispatch(Snapshot(b, speaking), ignored, force, below, cbs), raises)

(***************************************************************************)
(* The operations of FillerInterruptHandler                                *)
(*                                                                         *)
(* The event loop switches tasks at an await only. The operations that are *)
(* not part of a running call are taken while no call is between awaits.   *)
(***************************************************************************)

Free == "free"

\* The participants' identities.
Identities == {"alice", "bob"}

\* MultiUserTranscriber with nobody in the room: self._sessions = {}, self._tasks = set()
NoSessions == connected = {} /\ sessions = [p \in Identities |-> 0] /\ start_tasks = {} /\ live = {} /\ tasks_created = 0

\* Register keeping the callback a kind already has (setdefault).
RegisterIfAbsent(cbs, kind, cb) == IF kind \in DOMAIN cbs THEN cbs ELSE Put(cbs, kind, cb)

\* self._callbacks[kind] = cb
Register(cbs, kind, cb) == Put(cbs, kind, cb)

\* The history of the registrations, kept beside the registry.
Noted(kind, cb) == registered' = [registered EXCEPT ![kind] = cb] /\ earlier' = [earlier EXCEPT ![kind] = registered[kind]]

on_valid_interruption(cb) ==
  /\ running = None
  /\ callbacks' = Register(callbacks, "valid_interruption", cb)
  /\ Noted("valid_interruption", cb)
  /\ UNCHANGED <<ignored_words, force_stop_words, thresholds, agent_speaking, lock, calls, running, beside, orchestration>>

on_ignored_filler(cb) ==
  /\ running = None
  /\ callbacks' = Register(callbacks, "ignored_filler", cb)
  /\ Noted("ignored_filler", cb)
  /\ UNCHANGED <<ignored_words, force_stop_words, thresholds, agent_speaking, lock, calls, running, beside, orchestration>>

on_speech_registered(cb) ==
  /\ running = None
  /\ callbacks' = Register(callbacks, "speech_registered", cb)
  /\ Noted("speech_registered", cb)
  /\ UNCHANGED <<ignored_words, force_stop_words, thresholds, agent_speaking, lock, calls, running, beside, orchestration>>

\* async with self.lock: the body has no await, so the operation takes the
\* free lock, writes and releases it without a task switch; it waits while
\* the lock is held.
update_ignored_words(new_list) ==
  /\ running = None
  /\ lock = Free
  /\ ignored_words' = LowerAll(new_list)
  /\ UNCHANGED <<force_stop_words, thresholds, agent_speaking, lock, calls, running, registry, beside, orchestration>>

update_force_stop_words(new_list) ==
  /\ running = None
  /\ lock = Free
  /\ force_stop_words' = LowerAll(new_list)
  /\ UNCHANGED <<ignored_words, thresholds, agent_speaking, lock, calls, running, registry, beside, orchestration>>

\* on_tts_start flipping the flag instead of setting it.
on_tts_start_flipping ==
  /\ running = None
  /\ lock = Free
  /\ agent_speaking' = ~agent_speaking
  /\ last_tts' = "start"
  /\ UNCHANGED <<ignored_words, force_stop_words, thresholds, lock, calls, running, registry, quiet_task, orchestration>>

on_tts_start ==
  /\ running = None
  /\ lock = Free
  /\ agent_speaking' = TRUE
  /\ last_tts' = "start"
  /\ UNCHANGED <<ignored_words, force_stop_words, thresholds, lock, calls, running, registry, quiet_task, orchestration>>

on_tts_end ==
  /\ running = None
  /\ lock = Free
  /\ agent_speaking' = FALSE
  /\ last_tts' = "end"
  /\ UNCHANGED <<ignored_words, force_stop_words, thresholds, lock, calls, running, registry, quiet_task, orchestration>>

\* handle_transcript also ignoring, while the agent speaks, what is below
\* min_confidence_to_consider.
handle_transcript_considering(t, text, confidence, words, metadata, raises) ==
  /\ running = None
  /\ lock = Free
  /\ calls[t].pc \in {"idle", "done"}
  /\ calls' = [calls EXCEPT ![t] = WholeCall(text, confidence, words, metadata, agent_speaking, ignored_words, force_stop_words, IF ignore_if_confidence_below < min_confidence_to_consider THEN min_confidence_to_consider ELSE ignore_if_confidence_below, callbacks, raises)]
  /\ UNCHANGED <<ignored_words, force_stop_words, thresholds, agent_speaking, lock, running, registry, beside, orchestration>>

\* handle_transcript clearing the speaking flag once it has called a callback.
handle_transcript_clearing(t, text, confidence, words, metadata, raises) ==
  /\ running = None
  /\ lock = Free
  /\ calls[t].pc \in {"idle", "done"}
  /\ calls' = [calls EXCEPT ![t] = WholeCall(text, confidence, words, metadata, agent_speaking, ignored_words, force_stop_words, ignore_if_confidence_below, callbacks, raises)]
  /\ agent_speaking' = (agent_speaking /\ calls'[t].ran = 0)
  /\ UNCHANGED <<ignored_words, force_stop_words, thresholds, lock, running, registry, beside, orchestration>>

\* A call of handle_transcript by task t that no other task's step falls
\* into: it runs to its end. raises: the callback it calls raises.
handle_transcript(t, text, confidence, words, metadata, raises) ==
  /\ running = None
  /\ lock = Free
  /\ calls[t].pc \in {"idle", "done"}
  /\ calls' = [calls EXCEPT ![t] = WholeCall(text, confidence, words, metadata, agent_speaking, ignored_words, force_stop_words, ignore_if_confidence_below, callbacks, raises)]
  /\ UNCHANGED <<ignored_words, force_stop_words, thresholds, agent_speaking, lock, running, registry, beside, orchestration>>

\* result.get("text", "")
ResultText(result) == IF "text" \in DOMAIN result THEN result.text ELSE <<>>

\* result.get("confidence", None)
ResultConfidence(result) == IF "confidence" \in DOMAIN result THEN <<result.confidence>> ELSE <<>>

\* result.get("words", None)
ResultWords(result) == IF "words" \in DOMAIN result THEN result.words ELSE <<>>

\* _on_transcript_event: the result dict is also the metadata.
on_transcript_event(t, result, raises) == handle_transcript(t, ResultText(result), ResultConfidence(result), ResultWords(result), result, raises)

(***************************************************************************)
(* handle_transcript await by await, for the calls of several tasks        *)
(***************************************************************************)

\* LockAfterSnapshot with the rest of the call inside the async with block.
LockKept(t) == t

\* LockAfterSnapshot with the lock never given back.
LockLeaked(t) == "leaked"

\* The holder of the lock once the async with block of lines 161-162 is left.
LockAfterSnapshot(t) == Free

\* Lines 143-159, up to the await of the lock.
StartCall(t, text, confidence, words, metadata) ==
  /\ running = None
  /\ calls[t].pc \in {"idle", "done"}
  /\ calls' = [calls EXCEPT ![t] = Begin(text, confidence, words, metadata)]
  /\ UNCHANGED <<ignored_words, force_stop_words, thresholds, agent_speaking, lock, running, registry, beside, orchestration>>

\* Line 161: the lock is taken once it is free.
AcquireLock(t) ==
  /\ running = None
  /\ calls[t].pc = "acquire"
  /\ lock = Free
  /\ lock' = t
  /\ running' = t
  /\ calls' = [calls EXCEPT ![t].pc = "locked"]
  /\ UNCHANGED <<ignored_words, force_stop_words, thresholds, agent_speaking, registry, beside, orchestration>>

\* Line 162 and the end of the async with block, an await.
SnapshotRelease(t) ==
  /\ running = t
  /\ calls[t].pc = "locked"
  /\ calls' = [calls EXCEPT ![t] = Snapshot(calls[t], agent_speaking)]
  /\ lock' = LockAfterSnapshot(t)
  /\ running' = None
  /\ UNCHANGED <<ignored_words, force_stop_words, thresholds, agent_speaking, registry, beside, orchestration>>

\* DispatchCall reading self.agent_speaking again instead of using the snapshot.
DispatchCallRereading(t) ==
  /\ running = None
  /\ calls[t].pc = "decide"
  /\ calls' = [calls EXCEPT ![t] = Dispatch([calls[t] EXCEPT !.agent_speaking = agent_speaking], ignored_words, force_stop_words, ignore_if_confidence_below, callbacks)]
  /\ running' = IF calls'[t].pc = "callback" THEN t ELSE None
  /\ UNCHANGED <<ignored_words, force_stop_words, thresholds, agent_speaking, lock, registry, beside, orchestration>>

\* Lines 165-207 up to the call of the callback; without one the call returns.
DispatchCall(t) ==
  /\ running = None
  /\ calls[t].pc = "decide"
  /\ calls' = [calls EXCEPT ![t] = Dispatch(calls[t], ignored_words, force_stop_words, ignore_if_confidence_below, callbacks)]
  /\ running' = IF calls'[t].pc = "callback" THEN t ELSE None
  /\ UNCHANGED <<ignored_words, force_stop_words, thresholds, agent_speaking, lock, registry, beside, orchestration>>

CallbackReturns(t) ==
  /\ running = t
  /\ calls[t].pc = "callback"
  /\ calls' = [calls EXCEPT ![t] = CallbackReturn(calls[t])]
  /\ running' = IF calls'[t].pc = "callback" THEN t ELSE None
  /\ UNCHANGED <<ignored_words, force_stop_words, thresholds, agent_speaking, lock, registry, beside, orchestration>>

CallbackRaises(t) ==
  /\ running = t
  /\ calls[t].pc = "callback"
  /\ calls' = [calls EXCEPT ![t] = CallbackRaise(calls[t])]
  /\ running' = None
  /\ UNCHANGED <<ignored_words, force_stop_words, thresholds, agent_speaking, lock, registry, beside, orchestration>>

(***************************************************************************)
(* Inputs                                                                  *)
(***************************************************************************)

UH == <<"u", "h">>

NO == <<"n", "o">>

OK == <<"o", "k">>

\* The most pieces a generated text is put together from.
MaxPieces == 3

\* A filler of the default list, a force-stop word of the default list, a word
\* of neither, whitespace and punctuation.
Pieces == {UH, NO, OK, <<" ">>, <<".">>}

RECURSIVE TextsOfPieces(_)
TextsOfPieces(n) == IF n = 0 THEN {<<>>} ELSE TextsOfPieces(n - 1) \cup {s \o p : s \in TextsOfPieces(n - 1), p \in Pieces}

ClassifyTexts == TextsOfPieces(MaxPieces)

\* A per-word entry: a dict with a confidence, a dict without one, or no dict.
WordEntry(c) == [is_dict |-> TRUE, has_confidence |-> TRUE, confidence |-> c]

WordNoConfidence == [is_dict |-> TRUE, has_confidence |-> FALSE, confidence |-> 0]

WordNotADict == [is_dict |-> FALSE, has_confidence |-> FALSE, confidence |-> 0]

\* (confidence, words) pairs: none given, the overall confidence alone (below,
\* at and above the thresholds), per-word confidences that disagree with it,
\* and words of which none is a dict.
ConfidenceInputs == {[confidence |-> <<>>, words |-> <<>>], [confidence |-> <<10>>, words |-> <<>>], [confidence |-> <<40>>, words |-> <<>>], [confidence |-> <<90>>, words |-> <<>>], [confidence |-> <<90>>, words |-> <<WordEntry(10)>>], [confidence |-> <<10>>, words |-> <<WordEntry(80), WordNotADict, WordNoConfidence>>], [confidence |-> <<10>>, words |-> <<WordNotADict>>]}

\* Caller metadata: none, a key of its own, and keys the diagnostics also use.
MetadataInputs == {<<>>, [source |-> "stt"], [reason |-> "caller", avg_conf |-> [sum |-> 777, n |-> 1], non_ignored |-> <<<<"x">>>>]}

Handlers == {"h1", "h2"}

\* Constructor arguments; {} stands for an argument left out.
IgnoredWordsArgs == {{}, {OK, <<"U", "h">>}}

ForceStopWordsArgs == {{}, {UH, <<"N", "O">>}}

Thresholds == {DefaultIgnoreBelow, 90}

\* Registries the on_<kind> operations lead to.
Registries == {[k \in Kinds |-> "h1"], [k \in {"valid_interruption"} |-> "h2"]}

(***************************************************************************)
(* SpecClassify: one call of handle_transcript as a function of the        *)
(* handler's state and the call's arguments.                               *)
(***************************************************************************)

InitClassify ==
  /\ ignored_words \in {WordsOrDefault(a, DEFAULT_IGNORED_WORDS) : a \in IgnoredWordsArgs}
  /\ force_stop_words \in {WordsOrDefault(a, DEFAULT_FORCE_STOP_WORDS) : a \in ForceStopWordsArgs}
  /\ min_confidence_to_consider = DefaultMinConfidence
  /\ ignore_if_confidence_below \in Thresholds
  /\ agent_speaking \in BOOLEAN
  /\ lock = Free
  /\ callbacks \in Registries
  /\ registered = [k \in Kinds |-> Get(callbacks, k)]
  /\ earlier = [k \in Kinds |-> None]
  /\ calls = [t \in Tasks |-> IdleCall]
  /\ running = None
  /\ last_tts = (IF agent_speaking THEN "start" ELSE None)
  /\ quiet_task = "none"
  /\ NoSessions

NextClassify == calls["t1"].pc = "idle" /\ \E text \in ClassifyTexts, cw \in ConfidenceInputs, metadata \in MetadataInputs : handle_transcript("t1", text, cw.confidence, cw.words, metadata, FALSE)

SpecClassify == InitClassify /\ [][NextClassify]_vars

(***************************************************************************)
(* Spec: a handler built with the default arguments and driven through its *)
(* operations, every call running to its end.                              *)
(***************************************************************************)

\* FillerInterruptHandler(ignored_words, force_stop_words, min_confidence_to_consider, ignore_if_confidence_below)
Constructed(ignored_arg, force_arg, min_confidence, ignore_below) ==
  /\ ignored_words = WordsOrDefault(ignored_arg, DEFAULT_IGNORED_WORDS)
  /\ force_stop_words = WordsOrDefault(force_arg, DEFAULT_FORCE_STOP_WORDS)
  /\ min_confidence_to_consider = min_confidence
  /\ ignore_if_confidence_below = ignore_below
  /\ agent_speaking = FALSE
  /\ lock = Free
  /\ callbacks = <<>>
  /\ registered = [k \in Kinds |-> None]
  /\ earlier = [k \in Kinds |-> None]
  /\ calls = [t \in Tasks |-> IdleCall]
  /\ running = None
  /\ last_tts = None
  /\ quiet_task = "none"
  /\ NoSessions

Init == Constructed({}, {}, DefaultMinConfidence, DefaultIgnoreBelow)

\* Texts: whitespace only, a filler, a force-stop word in capitals with
\* punctuation around it, a filler with another word.
Texts == {<<" ">>, <<" ">> \o UH, <<"N", "O", ".">>, UH \o <<" ">> \o OK}

Confidences == {<<>>, <<10>>}

\* Results of the transcriber: with and without a text, a confidence, and a
\* key the diagnostics also use.
Results == {[text |-> UH, confidence |-> 90], [confidence |-> 10], [text |-> OK, reason |-> "caller"]}

\* A list with a capital and a word with a space before it.
IgnoredWordsUpdates == {{OK, <<"U", "h">>, <<" ", "u", "m", "m">>}}

ForceStopWordsUpdates == {{UH}}

Next ==
  \/ \E cb \in {"h1"} : on_valid_interruption(cb)
  \/ \E cb \in {"h1"} : on_ignored_filler(cb)
  \/ \E cb \in {"h1"} : on_speech_registered(cb)
  \/ \E new_list \in IgnoredWordsUpdates : update_ignored_words(new_list)
  \/ \E new_list \in ForceStopWordsUpdates : update_force_stop_words(new_list)
  \/ on_tts_start
  \/ on_tts_end
  \/ \E text \in Texts, confidence \in Confidences, raises \in BOOLEAN : handle_transcript("t1", text, confidence, <<>>, <<>>, raises)
  \/ \E result \in Results, raises \in BOOLEAN : on_transcript_event("t1", result, raises)

Spec == Init /\ [][Next]_vars

(***************************************************************************)
(* SpecRegistry: callbacks registered over and over, and the calls that    *)
(* find them.                                                              *)
(***************************************************************************)

RegistryTexts == {UH, NO}

NextRegistry ==
  \/ \E cb \in Handlers : on_valid_interruption(cb)
  \/ \E cb \in Handlers : on_ignored_filler(cb)
  \/ \E cb \in Handlers : on_speech_registered(cb)
  \/ on_tts_start
  \/ on_tts_end
  \/ \E text \in RegistryTexts : handle_transcript("t1", text, <<>>, <<>>, <<>>, FALSE)

SpecRegistry == Init /\ [][NextRegistry]_vars

(***************************************************************************)
(* SpecInterleaved: two tasks call handle_transcript; the event loop       *)
(* switches between them, and to the other operations, at their awaits.    *)
(***************************************************************************)

InterleavedTexts == {<<" ">>, UH, NO, OK}

InterleavedConfidences == {<<>>, <<10>>}

\* The handler constructed with the default arguments and a callback
\* registered for every kind.
InitInterleaved ==
  /\ ignored_words = WordsOrDefault({}, DEFAULT_IGNORED_WORDS)
  /\ force_stop_words = WordsOrDefault({}, DEFAULT_FORCE_STOP_WORDS)
  /\ min_confidence_to_consider = DefaultMinConfidence
  /\ ignore_if_confidence_below = DefaultIgnoreBelow
  /\ agent_speaking = FALSE
  /\ lock = Free
  /\ callbacks = [k \in Kinds |-> "h1"]
  /\ registered = [k \in Kinds |-> "h1"]
  /\ earlier = [k \in Kinds |-> None]
  /\ calls = [t \in Tasks |-> IdleCall]
  /\ running = None
  /\ last_tts = None
  /\ quiet_task = "none"
  /\ NoSessions

NextInterleaved ==
  \/ \E new_list \in IgnoredWordsUpdates : update_ignored_words(new_list)
  \/ \E new_list \in ForceStopWordsUpdates : update_force_stop_words(new_list)
  \/ on_tts_start
  \/ on_tts_end
  \/ \E t \in Tasks, text \in InterleavedTexts, confidence \in InterleavedConfidences : StartCall(t, text, confidence, <<>>, <<>>)
  \/ \E t \in Tasks : AcquireLock(t)
  \/ \E t \in Tasks : SnapshotRelease(t)
  \/ \E t \in Tasks : DispatchCall(t)
  \/ \E t \in Tasks : CallbackReturns(t)
  \/ \E t \in Tasks : CallbackRaises(t)

SpecInterleaved == InitInterleaved /\ [][NextInterleaved]_vars

\* The event loop runs every task that is ready (its queue is first in, first
\* out, and so is the queue of the lock's waiters), and a callback, an
\* ordinary function, returns or raises.
FairInterleaved == \A t \in Tasks : SF_vars(AcquireLock(t)) /\ WF_vars(SnapshotRelease(t)) /\ SF_vars(DispatchCall(t)) /\ WF_vars(CallbackReturns(t) \/ CallbackRaises(t))

SpecInterleavedFair == SpecInterleaved /\ FairInterleaved

(***************************************************************************)
(* SpecTokenize: the tokens handle_transcript gets from tokenize, for      *)
(* every short text over letters, a digit, the underscore, the apostrophe, *)
(* whitespace and punctuation.                                             *)
(***************************************************************************)

TokenizeChars == {"a", "N", "7", "_", "'", " ", "."}

\* The longest text given to tokenize.
MaxChars == 4

RECURSIVE TextsOfChars(_)
TextsOfChars(n) == IF n = 0 THEN {<<>>} ELSE TextsOfChars(n - 1) \cup {s \o <<c>> : s \in TextsOfChars(n - 1), c \in TokenizeChars}

TokenizeTexts == TextsOfChars(MaxChars)

NextTokenize == calls["t1"].pc = "idle" /\ \E text \in TokenizeTexts : handle_transcript("t1", text, <<>>, <<>>, <<>>, FALSE)

SpecTokenize == Init /\ [][NextTokenize]_vars

(***************************************************************************)
(* SpecHost: MultiUserTranscriber and its handler; the transcripts of the  *)
(* participants' sessions arrive as tasks calling _on_transcript_event.    *)
(***************************************************************************)

\* ignored_words=["uh", "umm", "hmm", "haan"]
HostIgnoredWords == {UH, <<"u", "m", "m">>, <<"h", "m", "m">>, <<"h", "a", "a", "n">>}

STOP == <<"s", "t", "o", "p">>

\* force_stop_words=["stop", "wait", "pause", "end", "terminate"]
HostForceStopWords == {STOP, <<"w", "a", "i", "t">>, <<"p", "a", "u", "s", "e">>, <<"e", "n", "d">>, <<"t", "e", "r", "m", "i", "n", "a", "t", "e">>}

\* ignore_if_confidence_below=0.35
HostIgnoreBelow == 35

\* The handler as MultiUserTranscriber.__init__ constructs it.
InitHost == Constructed(HostIgnoredWords, HostForceStopWords, DefaultMinConfidence, HostIgnoreBelow)

\* The rest of MultiUserTranscriber.__init__: three lambdas registered, the
\* flag written directly, the task of _set_agent_quiet created, and
\* on_valid_interruption called again by _register_stop_behavior.
MultiUserTranscriber_init ==
  /\ running = None
  /\ quiet_task = "none"
  /\ callbacks' = Register(Register(Register(Register(callbacks, "valid_interruption", "lambda"), "ignored_filler", "lambda"), "speech_registered", "lambda"), "valid_interruption", "handle_interrupt")
  /\ registered' = [k \in Kinds |-> IF k = "valid_interruption" THEN "handle_interrupt" ELSE "lambda"]
  /\ earlier' = [k \in Kinds |-> IF k = "valid_interruption" THEN "lambda" ELSE registered[k]]
  /\ agent_speaking' = TRUE
  /\ quiet_task' = "sleeping"
  /\ UNCHANGED <<ignored_words, force_stop_words, thresholds, lock, calls, running, last_tts, orchestration>>

\* _set_agent_quiet once its sleep is over: the flag written without the lock.
set_agent_quiet ==
  /\ running = None
  /\ quiet_task = "sleeping"
  /\ agent_speaking' = FALSE
  /\ quiet_task' = "done"
  /\ UNCHANGED <<ignored_words, force_stop_words, thresholds, lock, calls, running, registry, last_tts, orchestration>>

HostTexts == {UH, STOP, UH \o <<" ">> \o OK, <<".">>}

\* confidence = getattr(result, "confidence", 1.0)
HostConfidences == {FullConfidence, 30}

\* {"text": text, "confidence": confidence}
HostResults == {[text |-> text, confidence |-> confidence] : text \in HostTexts, confidence \in HostConfidences}

\* on_transcript_event of a session started after __init__.
host_transcript_event(t, result) == quiet_task # "none" /\ on_transcript_event(t, result, FALSE)

NextHost ==
  \/ MultiUserTranscriber_init
  \/ set_agent_quiet
  \/ \E t \in Tasks, result \in HostResults : host_transcript_event(t, result)

SpecHost == InitHost /\ [][NextHost]_vars

(***************************************************************************)
(* SpecMinConfidence: handlers that differ in min_confidence_to_consider   *)
(* alone, driven through the same operations.                              *)
(***************************************************************************)

\* min_confidence_to_consider: below, between and above the confidences given.
MinConfidences == {0, DefaultMinConfidence, FullConfidence}

InitMinConfidence == \E m \in MinConfidences : Constructed({}, {}, m, DefaultIgnoreBelow)

\* Overall confidences: none, one below ignore_if_confidence_below, and one
\* between it and the default of min_confidence_to_consider.
MinConfidenceInputs == {<<>>, <<10>>, <<45>>}

NextMinConfidence ==
  \/ on_valid_interruption("h1")
  \/ on_ignored_filler("h1")
  \/ on_speech_registered("h1")
  \/ \E new_list \in IgnoredWordsUpdates : update_ignored_words(new_list)
  \/ \E new_list \in ForceStopWordsUpdates : update_force_stop_words(new_list)
  \/ on_tts_start
  \/ on_tts_end
  \/ \E text \in Texts, confidence \in MinConfidenceInputs : handle_transcript("t1", text, confidence, <<>>, <<>>, FALSE)

SpecMinConfidence == InitMinConfidence /\ [][NextMinConfidence]_vars

(***************************************************************************)
(* SpecForceStop: calls of handle_transcript with the words of the default *)
(* force-stop entry "one moment".                                          *)
(***************************************************************************)

ONE == <<"o", "n", "e">>

MOMENT == <<"m", "o", "m", "e", "n", "t">>

ForceStopPieces == {<<>>, ONE, MOMENT, NO, <<" ">>}

ForceStopTexts == {a \o b \o c : a \in ForceStopPieces, b \in ForceStopPieces, c \in ForceStopPieces}

NextForceStop == calls["t1"].pc = "idle" /\ \E text \in ForceStopTexts, confidence \in Confidences : handle_transcript("t1", text, confidence, <<>>, <<>>, FALSE)

SpecForceStop == InitClassify /\ [][NextForceStop]_vars

(***************************************************************************)
(* SpecSessions: MultiUserTranscriber's sessions, one task of              *)
(* _start_session for each participant_connected event it accepts.         *)
(***************************************************************************)

\* self.handler, which the events of the room leave alone.
handler == <<ignored_words, force_stop_words, thresholds, agent_speaking, lock, calls, running, registry, beside>>

\* The most tasks of _start_session created in a run.
MaxStartTasks == 3

\* A participant joins the room: without a key in self._sessions a task of
\* _start_session is created (self._tasks is not looked at).
on_participant_connected(p) ==
  /\ p \notin connected
  /\ sessions[p] = 0 => tasks_created < MaxStartTasks
  /\ connected' = connected \cup {p}
  /\ start_tasks' = IF sessions[p] # 0 THEN start_tasks ELSE start_tasks \cup {[id |-> tasks_created + 1, identity |-> p, pc |-> "created", session |-> 0]}
  /\ tasks_created' = IF sessions[p] # 0 THEN tasks_created ELSE tasks_created + 1
  /\ UNCHANGED <<sessions, live, handler>>

\* A participant leaves: self._sessions.pop(identity) raises KeyError without
\* a key (nothing changes); with one, the session is removed and closed.
on_participant_disconnected(p) ==
  /\ p \in connected
  /\ connected' = connected \ {p}
  /\ sessions' = [sessions EXCEPT ![p] = 0]
  /\ live' = {s \in live : s.id # sessions[p]}
  /\ UNCHANGED <<start_tasks, tasks_created, handler>>

\* _start_session up to its first await: the session in self._sessions is
\* returned, or an AgentSession is created.
start_session(task) ==
  /\ task \in start_tasks
  /\ task.pc = "created"
  /\ start_tasks' = (start_tasks \ {task}) \cup {IF sessions[task.identity] # 0 THEN [task EXCEPT !.pc = "returning", !.session = sessions[task.identity]] ELSE [task EXCEPT !.pc = "starting", !.session = task.id]}
  /\ live' = IF sessions[task.identity] # 0 THEN live ELSE live \cup {[id |-> task.id, identity |-> task.identity]}
  /\ UNCHANGED <<connected, sessions, tasks_created, handler>>

\* The task is done: self._sessions[participant.identity] = task.result()
on_task_done(task) ==
  /\ task \in start_tasks
  /\ task.pc \in {"starting", "returning"}
  /\ sessions' = [sessions EXCEPT ![task.identity] = task.session]
  /\ start_tasks' = start_tasks \ {task}
  /\ UNCHANGED <<connected, live, tasks_created, handler>>

NextSessions ==
  \/ \E p \in Identities : on_participant_connected(p)
  \/ \E p \in Identities : on_participant_disconnected(p)
  \/ \E task \in start_tasks : start_session(task)
  \/ \E task \in start_tasks : on_task_done(task)

SpecSessions == InitHost /\ [][NextSessions]_vars

(***************************************************************************)
(* Properties                                                              *)
(***************************************************************************)

\* The text is empty or whitespace only.
IsBlank(text) == \A i \in 1..Len(text) : text[i] \in Whitespace

\* How many callbacks of kind k the call c has called.
InvokedCount(c, k) == Cardinality({i \in 1..c.ran : c.invocations[i].kind = k})

\* The call c has the single outcome (kind, reason).
HasOutcome(c, kind, reason) == Len(c.outcomes) = 1 /\ c.outcomes[1].kind = kind /\ c.outcomes[1].reason = reason

\* The call c is over and its text was not empty after the trim.
Classified(c) == c.pc = "done" /\ c.text # <<>>

\* avg_conf of c is below the handler's ignore_if_confidence_below.
BelowThreshold(c) == c.avg_conf.sum < ignore_if_confidence_below * c.avg_conf.n

SomeForceStopToken(c) == \E i \in 1..Len(c.tokens) : c.tokens[i] \in force_stop_words

AllTokensIgnored(c) == \A i \in 1..Len(c.tokens) : c.tokens[i] \in ignored_words

\* What C1 asks of a call c that ended with reg the callbacks registered.
OneOutcomeOneCallback(c, reg) == IF IsBlank(c.arg_text) THEN c.outcomes = <<>> /\ c.ran = 0 ELSE Len(c.outcomes) = 1 /\ c.outcomes[1].kind \in Kinds /\ \A k \in Kinds : InvokedCount(c, k) = IF k = c.outcomes[1].kind /\ reg[k] # None THEN 1 ELSE 0

C2_LowConfidenceGate == \A t \in Tasks : (Classified(calls[t]) /\ calls[t].agent_speaking) => (HasOutcome(calls[t], "ignored_filler", "low_confidence") <=> BelowThreshold(calls[t]))

\* C2, witness: the agent speaks, the text is exactly a force-stop word, the
\* per-word confidence is below the threshold, and the call is ignored.
C2_Witness == \E t \in Tasks : Classified(calls[t]) /\ calls[t].agent_speaking /\ Len(calls[t].tokens) = 1 /\ calls[t].text \in force_stop_words /\ calls[t].words # <<>> /\ BelowThreshold(calls[t]) /\ HasOutcome(calls[t], "ignored_filler", "low_confidence")

\* C3: with the snapshot true, avg_conf not below the threshold and a token in
\* force_stop_words, the outcome is valid_interruption with reason
\* force_stop_word, whatever tokens are in ignored_words.
C3_ForceStopWins == \A t \in Tasks : (Classified(calls[t]) /\ calls[t].agent_speaking /\ ~BelowThreshold(calls[t]) /\ SomeForceStopToken(calls[t])) => HasOutcome(calls[t], "valid_interruption", "force_stop_word")

\* C3, witness: several tokens, all of them in ignored_words, one of them in
\* force_stop_words as well, and the call is a force_stop_word interruption.
C3_Witness == \E t \in Tasks : Classified(calls[t]) /\ calls[t].agent_speaking /\ ~BelowThreshold(calls[t]) /\ Len(calls[t].tokens) > 1 /\ AllTokensIgnored(calls[t]) /\ SomeForceStopToken(calls[t]) /\ HasOutcome(calls[t], "valid_interruption", "force_stop_word")

\* C4: with the snapshot false, the outcome of a call with a text is
\* speech_registered with reason agent_quiet, whatever avg_conf and the tokens.
C4_QuietRegistersSpeech == \A t \in Tasks : (Classified(calls[t]) /\ ~calls[t].agent_speaking) => HasOutcome(calls[t], "speech_registered", "agent_quiet")

\* C4, witness: the agent is quiet, avg_conf is below the threshold, a token
\* is a force-stop word, and the speech is registered.
C4_Witness == \E t \in Tasks : Classified(calls[t]) /\ ~calls[t].agent_speaking /\ BelowThreshold(calls[t]) /\ SomeForceStopToken(calls[t]) /\ HasOutcome(calls[t], "speech_registered", "agent_quiet")

\* C5: with the snapshot true, avg_conf not below the threshold, no token in
\* force_stop_words and every token in ignored_words, the outcome is
\* ignored_filler with reason filler_only.
C5_FillerOnly == \A t \in Tasks : (Classified(calls[t]) /\ calls[t].agent_speaking /\ ~BelowThreshold(calls[t]) /\ ~SomeForceStopToken(calls[t]) /\ AllTokensIgnored(calls[t])) => HasOutcome(calls[t], "ignored_filler", "filler_only")

\* C5, witness: two or more tokens, every one a filler, none a force-stop
\* word, and the call is ignored as filler_only.
C5_Witness == \E t \in Tasks : Classified(calls[t]) /\ calls[t].agent_speaking /\ ~BelowThreshold(calls[t]) /\ Len(calls[t].tokens) > 1 /\ ~SomeForceStopToken(calls[t]) /\ AllTokensIgnored(calls[t]) /\ HasOutcome(calls[t], "ignored_filler", "filler_only")

\* The tokens of c that are not in ignored_words, in their order.
TokensNotIgnored(c) == LET keep == {i \in 1..Len(c.tokens) : c.tokens[i] \notin ignored_words} pos(j) == CHOOSE i \in keep : Cardinality({h \in keep : h < i}) = j - 1 IN [j \in 1..Cardinality(keep) |-> c.tokens[pos(j)]]

\* C6: with the snapshot true, avg_conf not below the threshold, no token in
\* force_stop_words and a token outside ignored_words, the outcome is
\* valid_interruption with reason mixed_tokens, and the list the callback gets
\* as non_ignored is the tokens outside ignored_words, in order, repeats kept.
C6_MixedTokens == \A t \in Tasks : (Classified(calls[t]) /\ calls[t].agent_speaking /\ ~BelowThreshold(calls[t]) /\ ~SomeForceStopToken(calls[t]) /\ ~AllTokensIgnored(calls[t])) => (HasOutcome(calls[t], "valid_interruption", "mixed_tokens") /\ \A i \in 1..calls[t].ran : calls[t].invocations[i].meta.non_ignored = TokensNotIgnored(calls[t]))

\* C7: where the caller's metadata has a key of a diagnostic field (reason,
\* avg_conf, non_ignored), the callback gets the diagnostic value under it.
C7_DiagnosticsTakePrecedence == \A t \in Tasks : \A i \in 1..calls[t].ran : LET c == calls[t] m == c.invocations[i].meta IN m.reason = c.outcomes[1].reason /\ m.avg_conf = c.avg_conf /\ (c.outcomes[1].reason = "mixed_tokens" => m.non_ignored = TokensNotIgnored(c))

\* C8: a callback that raises does not make handle_transcript raise.
C8_CallbackFailureContained == \A t \in Tasks : calls[t].pc = "done" => ~calls[t].raised

\* C9: each kind has the callback registered last for it and no other, a
\* registration leaves the other kinds alone, and a call of handle_transcript
\* calls the callback registered last for its outcome's kind, once, and none
\* registered before it.
C9_LatestRegistrationWins == [][(\A k \in Kinds : Get(callbacks', k) = registered'[k]) /\ (\A t \in Tasks : calls'[t] # calls[t] => (Len(calls'[t].invocations) <= 1 /\ \A i \in 1..Len(calls'[t].invocations) : calls'[t].invocations[i].handler = registered[calls'[t].invocations[i].kind]))]_vars

\* C9, witness: a kind's callback was registered over a different one, a call
\* with an outcome of that kind called the later one, and another kind holds a
\* callback different from it.
C9_Witness == \E t \in Tasks, k \in Kinds : earlier[k] \notin {None, registered[k]} /\ calls[t].pc = "done" /\ calls[t].ran = 1 /\ calls[t].invocations[1].kind = k /\ calls[t].invocations[1].handler = registered[k] /\ \E j \in Kinds \ {k} : registered[j] \notin {None, registered[k]}

\* C10: while a call of handle_transcript runs a callback, the lock is free.
C10_LockFreeInCallback == \A t \in Tasks : calls[t].pc = "callback" => lock = Free

\* C10, witness: a call runs its callback with the lock free while the other
\* task's call waits for the lock.
C10_Witness == \E t \in Tasks, u \in Tasks : calls[t].pc = "callback" /\ lock = Free /\ calls[u].pc = "acquire"

\* C11: a call of handle_transcript reads ignored_words and force_stop_words
\* holding the lock that update_ignored_words and update_force_stop_words
\* write them under: a call about to evaluate the membership of its tokens
\* is the holder of the lock.
C11_WordSetsReadUnderLock == \A t \in Tasks : calls[t].pc = "decide" => lock = t

\* C12: every element of ignored_words and of force_stop_words is lowercase
\* and has no whitespace at its start or its end.
C12_WordSetsLowercaseTrimmed == \A w \in ignored_words \cup force_stop_words : w = Lower(w) /\ w = Strip(w)

\* C13: agent_speaking is true exactly when the tts event that completed last
\* was a start (false before the first event); a start after a start and an
\* end after an end change nothing; and a call of handle_transcript made when
\* the last event was an end has the outcome speech_registered.
C13_TtsEventsIdempotent == [][/\ agent_speaking = (last_tts = "start") /\ agent_speaking' = (last_tts' = "start") /\ ((on_tts_start /\ last_tts = "start") => UNCHANGED vars) /\ ((on_tts_end /\ last_tts = "end") => UNCHANGED vars) /\ \A t \in Tasks : (calls'[t] # calls[t] /\ Classified(calls'[t]) /\ last_tts = "end") => HasOutcome(calls'[t], "speech_registered", "agent_quiet")]_vars

\* C13, witness: the last tts event was an end, the flag is false, and a call
\* made since has called the speech_registered callback.
C13_Witness == last_tts = "end" /\ ~agent_speaking /\ \E t \in Tasks : Classified(calls[t]) /\ ~calls[t].agent_speaking /\ calls[t].ran = 1 /\ calls[t].invocations[1].kind = "speech_registered"

\* C14: agent_speaking is written by the tts events alone: in every state it
\* has the value the last completed tts event gave it, false before the first.
C14_OnlyTtsEventsWriteFlag == agent_speaking = (last_tts = "start")

RECURSIVE KeyValueConfidences(_)
\* The confidences of the entries of words that are key-value records, one
\* without a confidence counting as 1.0.
KeyValueConfidences(words) == IF words = <<>> THEN <<>> ELSE (IF Head(words).is_dict THEN <<IF Head(words).has_confidence THEN Head(words).confidence ELSE FullConfidence>> ELSE <<>>) \o KeyValueConfidences(Tail(words))

\* avg (a sum and the number it is divided by) is the mean of confs.
IsMeanOf(avg, confs) == confs # <<>> /\ avg.n > 0 /\ avg.sum * Len(confs) = Sum(confs) * avg.n

\* avg is the overall confidence given, 1.0 without one.
IsOverallOrFull(avg, confidence) == avg.n > 0 /\ avg.sum = (IF confidence # <<>> THEN confidence[1] ELSE FullConfidence) * avg.n

\* C15: the average confidence of a call is the unweighted mean of the
\* confidences of the key-value entries of words when at least one entry is a
\* key-value record (the other entries skipped, the overall confidence
\* ignored); with no words, or none that is a key-value record, it is the
\* overall confidence given, and 1.0 if none is given.
C15_ConfidenceResolution == \A t \in Tasks : Classified(calls[t]) => IF KeyValueConfidences(calls[t].words) # <<>> THEN IsMeanOf(calls[t].avg_conf, KeyValueConfidences(calls[t].words)) ELSE IsOverallOrFull(calls[t].avg_conf, calls[t].confidence)

\* C15, witness: words are given, none is a key-value record, and the average
\* confidence of the call is the overall confidence given with them.
C15_Witness == \E t \in Tasks : Classified(calls[t]) /\ calls[t].words # <<>> /\ KeyValueConfidences(calls[t].words) = <<>> /\ calls[t].confidence # <<>> /\ IsOverallOrFull(calls[t].avg_conf, calls[t].confidence)

\* C15 as stated: whenever words are given and not empty the average is the
\* mean over their key-value entries and the overall confidence is ignored.
C15_AsStated == \A t \in Tasks : Classified(calls[t]) => IF calls[t].words # <<>> THEN IsMeanOf(calls[t].avg_conf, KeyValueConfidences(calls[t].words)) ELSE IsOverallOrFull(calls[t].avg_conf, calls[t].confidence)

\* C16: every call of handle_transcript that has begun completes, whatever
\* tts events, updates of the word sets and other calls run in between.
C16_EveryCallCompletes == \A t \in Tasks : (calls[t].pc \in {"acquire", "locked", "decide", "callback"}) ~> (calls[t].pc = "done")

\* C16, witness: a call that waited for the lock has completed while the
\* other task's call is still on its way.
C16_Witness == \E t \in Tasks, u \in Tasks : Classified(calls[t]) /\ calls[t].ran = 1 /\ calls[u].pc \in {"acquire", "decide"}

\* C17: a call of handle_transcript reads agent_speaking once, holding the
\* lock, and that snapshot alone decides between the quiet branch
\* (speech_registered) and the speaking branch: a tts event that completes
\* after the snapshot and the other task's call do not change it.
C17_SingleSnapshot == [][\A t \in Tasks : /\ ((calls[t].pc = "locked" /\ calls'[t].pc # "locked") => (lock = t /\ calls'[t].agent_speaking = agent_speaking)) /\ ((calls[t].pc \in {"decide", "callback"} /\ calls'[t].pc \notin {"acquire", "idle"}) => calls'[t].agent_speaking = calls[t].agent_speaking) /\ ((calls[t].pc = "decide" /\ calls'[t].pc # "decide") => (HasOutcome(calls'[t], "speech_registered", "agent_quiet") <=> ~calls[t].agent_speaking))]_vars

\* C17, witness: a call that took its snapshot while the agent spoke runs the
\* callback of the speaking branch after the flag has become false, with the
\* other task's call on its way.
C17_Witness == \E t \in Tasks, u \in Tasks : calls[t].pc = "callback" /\ calls[t].agent_speaking /\ ~agent_speaking /\ calls[t].outcomes[1].kind # "speech_registered" /\ calls[u].pc \in {"acquire", "decide"}

\* C18: a call has the outcome ignored_filler with reason filler_only only if
\* its text has at least one token and every token is in ignored_words.
C18_FillerOnlyNeedsTokens == \A t \in Tasks : (Classified(calls[t]) /\ HasOutcome(calls[t], "ignored_filler", "filler_only")) => (calls[t].tokens # <<>> /\ AllTokensIgnored(calls[t]))

\* C19: a call of handle_transcript leaves agent_speaking, ignored_words,
\* force_stop_words, the two thresholds and the callbacks as they were, and
\* the metadata the caller passed (for _on_transcript_event, the result
\* itself) is after the call what it was.
C19_HandleTranscriptPure == [][calls' # calls => (UNCHANGED <<agent_speaking, ignored_words, force_stop_words, min_confidence_to_consider, ignore_if_confidence_below, callbacks>> /\ \A t \in Tasks : calls'[t] # calls[t] => (calls'[t].metadata = <<>> \/ (calls'[t].metadata \in Results /\ ResultText(calls'[t].metadata) = calls'[t].arg_text /\ ResultConfidence(calls'[t].metadata) = calls'[t].confidence)))]_vars

\* C19, witness: a call made by _on_transcript_event while the agent speaks
\* has called a callback with a dict that is not the result, the result is
\* the caller's still, and the agent still speaks.
C19_Witness == \E t \in Tasks : Classified(calls[t]) /\ calls[t].agent_speaking /\ agent_speaking /\ calls[t].ran = 1 /\ calls[t].metadata \in Results /\ calls[t].invocations[1].meta # calls[t].metadata

\* C20: every token tokenize yields is non-empty and made of lowercase
\* letters, digits and apostrophes only; the underscore, like punctuation,
\* separates tokens and is in none.
C20_TokensAlphanumericOrApostrophe == \A t \in Tasks : \A i \in 1..Len(calls[t].tokens) : calls[t].tokens[i] # <<>> /\ \A j \in 1..Len(calls[t].tokens[i]) : calls[t].tokens[i][j] \in LowerLetters \cup Digits \cup {"'"}

\* C21: no identity has two AgentSessions alive (started or being started).
C21_OneSessionPerIdentity == \A p \in Identities : Cardinality({s \in live : s.identity = p}) <= 1

\* C22: min_confidence_to_consider has no part in a classification: whatever
\* its value, the outcome of a call and the callbacks it calls are those that
\* the text, the average confidence, the flag, the word sets,
\* ignore_if_confidence_below and the registered callbacks determine.
C22_MinConfidenceIrrelevant == [][\A t \in Tasks : (calls'[t] # calls[t] /\ Classified(calls'[t])) => (calls'[t].outcomes = Classify(tokenize(Strip(calls'[t].arg_text)), AverageConfidence(calls'[t].confidence, calls'[t].words), calls'[t].metadata, agent_speaking, ignored_words, force_stop_words, ignore_if_confidence_below) /\ calls'[t].invocations = Invocations(calls'[t].outcomes, callbacks, Strip(calls'[t].arg_text)) /\ calls'[t].ran = Len(calls'[t].invocations))]_vars

\* C22, witness: while the agent speaks, a text with an average confidence
\* below min_confidence_to_consider and not below ignore_if_confidence_below
\* is a valid interruption and its callback is called.
C22_Witness == \E t \in Tasks : Classified(calls[t]) /\ calls[t].agent_speaking /\ calls[t].avg_conf.sum < min_confidence_to_consider * calls[t].avg_conf.n /\ ~BelowThreshold(calls[t]) /\ calls[t].outcomes[1].kind = "valid_interruption" /\ calls[t].ran = 1

====
